---- MODULE Spec2Model ----
(***************************************************************************)
(* Model of the two CSV loaders of the repository:                         *)
(*   ingest_data.py  ingest_data(): chunked load of the trip data          *)
(*   zones_data.py   run():         one-shot load of the zone lookup       *)
(* A run is a straight-line program; pc is its position.  The source CSV,  *)
(* the database and the terminal are the environment: every call into them *)
(* may succeed or raise, and nothing in either script catches an exception.*)
(* Rows are identified as <<run, i>>: the i-th data row of the source that *)
(* the run-th run of the loader reads.                                     *)
(***************************************************************************)
EXTENDS Integers, Sequences, FiniteSets, TLC

MaxRows == 4
MaxChunk == 3
MaxRuns == 2

\* header lines of the CSV sources the runs read
Headers == { <<"VendorID", "fare_amount">>, <<"LocationID", "Zone">> }

\* DataFrame.to_sql(index=True, index_label=None): the frame's index is
\* written as a column named "index" in front of the frame's columns
IndexLabel == "index"

Programs == {"ingest", "zones"}

NoFrame == [cols |-> <<>>, rows |-> <<>>]
NoTable == [exists |-> FALSE, cols |-> <<>>, rows |-> <<>>]
\* a table of the same name left in the database by somebody else
OldTable == [exists |-> TRUE, cols |-> <<"index", "old">>, rows |-> << <<0, 1>> >>]

VARIABLES
  prog,          \* which script this run executes
  run,           \* number of the run (1 = first run of the loader)
  src,           \* the CSV source of this run
  chunksize,     \* --chunksize of this run (ingest only)
  pc,            \* position of the run in its script
  pos,           \* df_iter: data rows consumed so far
  firstRead,     \* df_iter: no chunk has been read yet (_first_chunk)
  first_chunk,   \* ingest: first_chunk; zones: df_zones
  df_chunk,      \* ingest: loop variable df_chunk
  table,         \* the destination table in the database
  tableAtStart,  \* the destination table as the run found it
  dbLog,         \* to_sql calls issued by this run, in order
  batches,       \* row counts of the frames read_csv produced in this run
  out,           \* progress messages emitted by this run
  failCause,     \* what raised, when pc = "failed"
  history        \* how the earlier runs ended, oldest first

vars == <<prog, run, src, chunksize, pc, pos, firstRead, first_chunk, df_chunk,
          table, tableAtStart, dbLog, batches, out, failCause, history>>

Min(a, b) == IF a < b THEN a ELSE b

Max(a, b) == IF a > b THEN a ELSE b

\* -------------------------------------------------------------------------
\* pandas.read_csv(..., iterator=True, chunksize=C): TextFileReader
\* -------------------------------------------------------------------------

\* the row after which the chunk starting after row lo ends
ChunkEnd(lo, C, R) == Min(lo + C, R)

\* a plausible slip: the row right after a chunk boundary is skipped
ChunkRowsSkipBoundary(r, lo, hi) ==
  IF lo > 0 /\ hi > lo
    THEN [i \in 1..(hi - lo - 1) |-> <<r, lo + 1 + i>>]
    ELSE [i \in 1..(hi - lo) |-> <<r, lo + i>>]

\* the data rows lo+1 .. hi of the source of run r, in file order
ChunkRows(r, lo, hi) == [i \in 1..(hi - lo) |-> <<r, lo + i>>]

\* next(df_iter) raises StopIteration: the source is exhausted, and this
\* is not the very first read (the first read of a header-only source
\* returns an empty frame carrying the header instead)
StopIteration(lo, R, first) == lo >= R /\ ~first

\* dtype=DTYPE: a literal that cannot be converted to the declared type
\* raises while the chunk holding it is parsed
BadLiteral(bad, lo, hi) == bad > lo /\ bad <= hi

\* DataFrame.head(0): same columns, no rows
Head0(frame) == [cols |-> frame.cols, rows |-> <<>>]

\* -------------------------------------------------------------------------
\* DataFrame.to_sql(name, con, if_exists)
\* -------------------------------------------------------------------------

\* a plausible slip: every call drops and recreates the table
CreatesAlways(tbl, if_exists) == TRUE

\* the call creates the table: it is absent, or it is dropped and recreated
Creates(tbl, if_exists) == ~tbl.exists \/ if_exists = "replace"

\* a plausible slip: if_exists="replace" passed where "append" was meant
ToSqlAlwaysReplace(tbl, frame, if_exists) ==
  [exists |-> TRUE, cols |-> <<IndexLabel>> \o frame.cols, rows |-> frame.rows]

\* a plausible slip: if_exists="append" passed where "replace" was meant
ToSqlAlwaysAppend(tbl, frame, if_exists) ==
  IF ~tbl.exists
    THEN [exists |-> TRUE, cols |-> <<IndexLabel>> \o frame.cols, rows |-> frame.rows]
    ELSE [tbl EXCEPT !.rows = @ \o frame.rows]

\* the table after a successful call
ToSql(tbl, frame, if_exists) ==
  IF Creates(tbl, if_exists)
    THEN [exists |-> TRUE, cols |-> <<IndexLabel>> \o frame.cols, rows |-> frame.rows]
    ELSE [tbl EXCEPT !.rows = @ \o frame.rows]

\* an append into an existing table whose columns differ is rejected
Insertable(tbl, frame, if_exists) ==
  Creates(tbl, if_exists) \/ tbl.cols = <<IndexLabel>> \o frame.cols

\* a plausible slip: a failed call cleans up by dropping the table
ToSqlFailedCleanup(tbl, if_exists) == {NoTable}

\* the table after a call that raised: the insert of the call is one
\* transaction, so none of its rows stay; a failed replace may or may not
\* have dropped the old table already
ToSqlFailed(tbl, if_exists) ==
  IF if_exists = "replace" THEN {tbl, NoTable} ELSE {tbl}

LogEntry(tbl, frame, if_exists, ok) ==
  [op |-> if_exists, created |-> ok /\ Creates(tbl, if_exists),
   n |-> Len(frame.rows), ok |-> ok]

\* -------------------------------------------------------------------------
\* steps shared by both scripts
\* -------------------------------------------------------------------------

Raise(cause) == pc' = "failed" /\ failCause' = cause

Goto(label) == pc' = label /\ failCause' = failCause

\* one to_sql call; the database decides whether it succeeds
DbCall(frame, if_exists, next) ==
  /\ \E ok \in BOOLEAN :
       /\ ok => Insertable(table, frame, if_exists)
       /\ dbLog' = Append(dbLog, LogEntry(table, frame, if_exists, ok))
       /\ IF ok
            THEN table' = ToSql(table, frame, if_exists) /\ Goto(next)
            ELSE table' \in ToSqlFailed(table, if_exists) /\ Raise("db")
  /\ UNCHANGED <<prog, run, src, chunksize, pos, firstRead, first_chunk,
                 df_chunk, tableAtStart, batches, out, history>>

\* one print(); writing to the terminal may raise
Report(msg, next) ==
  /\ \E ok \in BOOLEAN :
       IF ok
         THEN out' = Append(out, msg) /\ Goto(next)
         ELSE out' = out /\ Raise("report")
  /\ UNCHANGED <<prog, run, src, chunksize, pos, firstRead, first_chunk,
                 df_chunk, table, tableAtStart, dbLog, batches, history>>

\* -------------------------------------------------------------------------
\* ingest_data.py: ingest_data()
\* -------------------------------------------------------------------------

\* a plausible slip: the failed open is swallowed and the run goes on
OpenSwallow ==
  /\ prog = "ingest" /\ pc = "open"
  /\ IF chunksize < 1 THEN Raise("config") /\ UNCHANGED <<table, dbLog>>
     ELSE IF ~src.reachable
       THEN /\ Raise("source")
            /\ table' = ToSql(table, NoFrame, "replace")
            /\ dbLog' = Append(dbLog, LogEntry(table, NoFrame, "replace", TRUE))
       ELSE Goto("first") /\ UNCHANGED <<table, dbLog>>
  /\ UNCHANGED <<prog, run, src, chunksize, pos, firstRead, first_chunk,
                 df_chunk, tableAtStart, batches, out, history>>

\* df_iter = pd.read_csv(url, dtype=DTYPE, ..., iterator=True, chunksize=chunksize)
Open ==
  /\ prog = "ingest" /\ pc = "open"
  /\ IF chunksize < 1 THEN Raise("config")
     ELSE IF ~src.reachable THEN Raise("source")
     ELSE Goto("first")
  /\ UNCHANGED <<prog, run, src, chunksize, pos, firstRead, first_chunk,
                 df_chunk, table, tableAtStart, dbLog, batches, out, history>>

\* a plausible slip: the table is (re)created before the first chunk has
\* been parsed, so a first chunk that fails to parse leaves an empty table
FirstCreateBeforeRead ==
  /\ prog = "ingest" /\ pc = "first"
  /\ LET hi == ChunkEnd(pos, chunksize, src.rows)
         frame == [cols |-> src.cols, rows |-> ChunkRows(run, pos, hi)]
     IN IF BadLiteral(src.bad, pos, hi)
          THEN /\ Raise("read")
               /\ table' = ToSql(table, NoFrame, "replace")
               /\ dbLog' = Append(dbLog, LogEntry(table, NoFrame, "replace", TRUE))
               /\ UNCHANGED <<pos, firstRead, first_chunk, batches>>
          ELSE /\ Goto("create")
               /\ first_chunk' = frame
               /\ pos' = hi
               /\ firstRead' = FALSE
               /\ batches' = Append(batches, Len(frame.rows))
               /\ UNCHANGED <<table, dbLog>>
  /\ UNCHANGED <<prog, run, src, chunksize, df_chunk, tableAtStart, out, history>>

\* first_chunk = next(df_iter)
First ==
  /\ prog = "ingest" /\ pc = "first"
  /\ LET hi == ChunkEnd(pos, chunksize, src.rows)
         frame == [cols |-> src.cols, rows |-> ChunkRows(run, pos, hi)]
     IN IF StopIteration(pos, src.rows, firstRead)
          THEN Raise("stop") /\ UNCHANGED <<pos, firstRead, first_chunk, batches>>
        ELSE IF BadLiteral(src.bad, pos, hi)
          THEN Raise("read") /\ UNCHANGED <<pos, firstRead, first_chunk, batches>>
        ELSE /\ Goto("create")
             /\ first_chunk' = frame
             /\ pos' = hi
             /\ firstRead' = FALSE
             /\ batches' = Append(batches, Len(frame.rows))
  /\ UNCHANGED <<prog, run, src, chunksize, df_chunk, table, tableAtStart,
                 dbLog, out, history>>

\* first_chunk.head(0).to_sql(name=target_table, con=engine, if_exists="replace")
Create ==
  /\ prog = "ingest" /\ pc = "create"
  /\ DbCall(Head0(first_chunk), "replace", "print_created")

\* print(f"Table '{target_table}' created")
PrintCreated ==
  /\ prog = "ingest" /\ pc = "print_created"
  /\ Report("created", "append_first")

\* first_chunk.to_sql(name=target_table, con=engine, if_exists="append")
AppendFirst ==
  /\ prog = "ingest" /\ pc = "append_first"
  /\ DbCall(first_chunk, "append", "print_first")

\* print(f"Inserted first chunk: {len(first_chunk)} rows")
PrintFirst ==
  /\ prog = "ingest" /\ pc = "print_first"
  /\ Report("first", "loop_next")

\* for df_chunk in tqdm(df_iter, desc="Inserting chunks"): fetch the next
\* chunk, or leave the loop; the progress display may raise
LoopNext ==
  /\ prog = "ingest" /\ pc = "loop_next"
  /\ LET hi == ChunkEnd(pos, chunksize, src.rows)
         frame == [cols |-> src.cols, rows |-> ChunkRows(run, pos, hi)]
     IN \E shown \in BOOLEAN :
          IF ~shown
            THEN Raise("report") /\ UNCHANGED <<pos, firstRead, df_chunk, batches>>
          ELSE IF StopIteration(pos, src.rows, firstRead)
            THEN Goto("print_done") /\ UNCHANGED <<pos, firstRead, df_chunk, batches>>
          ELSE IF BadLiteral(src.bad, pos, hi)
            THEN Raise("read") /\ UNCHANGED <<pos, firstRead, df_chunk, batches>>
          ELSE /\ Goto("loop_append")
               /\ df_chunk' = frame
               /\ pos' = hi
               /\ firstRead' = FALSE
               /\ batches' = Append(batches, Len(frame.rows))
  /\ UNCHANGED <<prog, run, src, chunksize, first_chunk, table, tableAtStart,
                 dbLog, out, history>>

\* a plausible slip: the next chunk is fetched while the current one is
\* still being written (read-ahead)
LoopAppendPrefetch ==
  /\ prog = "ingest" /\ pc = "loop_append"
  /\ LET hi == ChunkEnd(pos, chunksize, src.rows)
         frame == [cols |-> src.cols, rows |-> ChunkRows(run, pos, hi)]
     IN /\ table' = ToSql(table, df_chunk, "append")
        /\ dbLog' = Append(dbLog, LogEntry(table, df_chunk, "append", TRUE))
        /\ IF pos >= src.rows \/ BadLiteral(src.bad, pos, hi)
             THEN Goto("loop_next") /\ UNCHANGED <<pos, df_chunk, batches>>
             ELSE /\ Goto("loop_append")
                  /\ df_chunk' = frame
                  /\ pos' = hi
                  /\ batches' = Append(batches, Len(frame.rows))
  /\ UNCHANGED <<prog, run, src, chunksize, firstRead, first_chunk,
                 tableAtStart, out, history>>

\* df_chunk.to_sql(name=target_table, con=engine, if_exists="append")
LoopAppend ==
  /\ prog = "ingest" /\ pc = "loop_append"
  /\ DbCall(df_chunk, "append", "loop_next")

\* print(f"Done ingesting data into '{target_table}'")
PrintDone ==
  /\ prog = "ingest" /\ pc = "print_done"
  /\ Report("done", "done")

\* -------------------------------------------------------------------------
\* zones_data.py: run()
\* -------------------------------------------------------------------------

\* df_zones = pd.read_csv(url): the whole source as one frame, types inferred
ZRead ==
  /\ prog = "zones" /\ pc = "z_read"
  /\ IF ~src.reachable
       THEN Raise("source") /\ UNCHANGED <<pos, firstRead, first_chunk, batches>>
       ELSE /\ Goto("z_create")
            /\ first_chunk' = [cols |-> src.cols, rows |-> ChunkRows(run, 0, src.rows)]
            /\ pos' = src.rows
            /\ firstRead' = FALSE
            /\ batches' = Append(batches, Len(first_chunk'.rows))
  /\ UNCHANGED <<prog, run, src, chunksize, df_chunk, table, tableAtStart,
                 dbLog, out, history>>

\* df_zones.head(0).to_sql(name=target_table, con=engine, if_exists="replace")
ZCreate ==
  /\ prog = "zones" /\ pc = "z_create"
  /\ DbCall(Head0(first_chunk), "replace", "z_print_created")

\* print(f"table {target_table} created")
ZPrintCreated ==
  /\ prog = "zones" /\ pc = "z_print_created"
  /\ Report("created", "z_append")

\* df_zones.to_sql(name=target_table, con=engine, if_exists="append")
ZAppend ==
  /\ prog = "zones" /\ pc = "z_append"
  /\ DbCall(first_chunk, "append", "z_print_done")

\* print(f"{len(df_zones)} rows inserted into {target_table}")
ZPrintDone ==
  /\ prog = "zones" /\ pc = "z_print_done"
  /\ Report("done", "done")

\* -------------------------------------------------------------------------
\* the runs
\* -------------------------------------------------------------------------

\* the sources a run of program p may be pointed at
Sources(p) ==
  { s \in [rows : 0..MaxRows, bad : 0..MaxRows, reachable : BOOLEAN, cols : Headers] :
      /\ s.bad <= s.rows
      /\ p = "zones" => s.bad = 0 }

\* the --chunksize values of program p (zones_data.py has no such option)
ChunkSizes(p) == IF p = "ingest" THEN 0..MaxChunk ELSE {0}

Entry(p) == IF p = "ingest" THEN "open" ELSE "z_read"

\* the state in which main() / run() is entered for run number r
Start(r, tbl) ==
  /\ run' = r
  /\ prog' \in Programs
  /\ src' \in Sources(prog')
  /\ chunksize' \in ChunkSizes(prog')
  /\ pc' = Entry(prog')
  /\ pos' = 0
  /\ firstRead' = TRUE
  /\ first_chunk' = NoFrame
  /\ df_chunk' = NoFrame
  /\ table' = tbl
  /\ tableAtStart' = tbl
  /\ dbLog' = <<>>
  /\ batches' = <<>>
  /\ out' = <<>>
  /\ failCause' = "none"

Init ==
  /\ run = 1
  /\ prog \in Programs
  /\ src \in Sources(prog)
  /\ chunksize \in ChunkSizes(prog)
  /\ pc = Entry(prog)
  /\ pos = 0
  /\ firstRead = TRUE
  /\ first_chunk = NoFrame
  /\ df_chunk = NoFrame
  /\ table \in {NoTable, OldTable}
  /\ tableAtStart = table
  /\ dbLog = <<>>
  /\ batches = <<>>
  /\ out = <<>>
  /\ failCause = "none"
  /\ history = <<>>

\* the loader is started again, against the same table, after the
\* previous run has ended
Rerun ==
  /\ pc \in {"done", "failed"}
  /\ run < MaxRuns
  /\ Start(run + 1, table)
  /\ history' = Append(history, pc)

Next ==
  \/ Open \/ First \/ Create \/ PrintCreated \/ AppendFirst \/ PrintFirst
  \/ LoopNext \/ LoopAppend \/ PrintDone
  \/ ZRead \/ ZCreate \/ ZPrintCreated \/ ZAppend \/ ZPrintDone
  \/ Rerun

Spec == Init /\ [][Next]_vars

\* -------------------------------------------------------------------------
\* vocabulary of the properties
\* -------------------------------------------------------------------------

Ceil(R, C) == (R + C - 1) \div C

RECURSIVE SumSeq(_)
SumSeq(s) == IF s = <<>> THEN 0 ELSE Head(s) + SumSeq(Tail(s))

\* the data rows of this run's source, in file order
AllRows == [i \in 1..src.rows |-> <<run, i>>]

\* to_sql calls of this run that appended and returned
OkAppends == { i \in 1..Len(dbLog) : dbLog[i].op = "append" /\ dbLog[i].ok }

\* to_sql calls of this run that created the table
Creations == { i \in 1..Len(dbLog) : dbLog[i].created }

\* rows this run has appended
AppendedRows == SumSeq([i \in 1..Len(dbLog) |->
                  IF i \in OkAppends THEN dbLog[i].n ELSE 0])

\* batches read from the source and not yet appended
InFlight == Len(batches) - Cardinality(OkAppends)

\* df_iter has raised StopIteration in the loop of ingest_data
Exhausted == prog = "ingest" /\ pc \in {"print_done", "done"}

BatchesBounded ==
  /\ \A i \in 1..Len(batches) : batches[i] <= chunksize
  /\ SumSeq(batches) = src.rows

\* -------------------------------------------------------------------------
\* properties
\* -------------------------------------------------------------------------

\* C1 as stated: once the reader of ingest_data is exhausted it has produced
\* exactly ceil(R / C) batches, each of at most C rows, R rows in all.
C1_CeilBatches ==
  Exhausted => Len(batches) = Ceil(src.rows, chunksize) /\ BatchesBounded

\* C1 as amended: the reader produces ceil(R / C) batches when R >= 1 and a
\* single empty batch when the source has a header and no data row (R = 0);
\* each batch has at most C rows and the row counts sum to R.
C1_BatchCount ==
  Exhausted =>
    /\ Len(batches) = Max(1, Ceil(src.rows, chunksize))
    /\ src.rows >= 1 => Len(batches) = Ceil(src.rows, chunksize)
    /\ BatchesBounded

C1_Witness ==
  /\ Exhausted /\ Len(batches) = 2
  /\ src.rows = 3 /\ chunksize = 2 /\ batches = <<2, 1>>

\* C2: after a run that completes without error the table holds exactly
\* the rows of the source, each once, in file order.
C2_AllRowsInOrder ==
  pc = "done" => table.exists /\ table.rows = AllRows

C2_Witness ==
  /\ prog = "ingest" /\ pc = "done"
  /\ chunksize = 1 /\ src.rows = 3 /\ Len(table.rows) = 3

\* C3: the replace call is the first database call of a run and the only
\* one that creates the table; every later call is an append that finds the
\* table in place; a completed run has created once and appended once per
\* batch, and the zone loader has issued one replace and then one append.
C3_CreateOnceThenAppend ==
  /\ \A i \in 1..Len(dbLog) :
       /\ dbLog[i].op = "replace" <=> i = 1
       /\ dbLog[i].created => i = 1
  /\ Cardinality(OkAppends) > 0 => Creations = {1}
  /\ pc = "done" =>
       /\ Creations = {1}
       /\ Cardinality(OkAppends) = Len(batches)
       /\ Len(dbLog) = 1 + Len(batches)
  /\ (prog = "zones" /\ pc = "done") =>
       /\ Len(dbLog) = 2
       /\ dbLog[1].op = "replace" /\ dbLog[2].op = "append"

C3_Witness ==
  /\ prog = "ingest" /\ pc = "done"
  /\ Len(batches) = 3 /\ Len(dbLog) = 4 /\ tableAtStart.exists

\* C4: when a run completes after an earlier completed run against the
\* same table, the table holds the rows of the later run alone; and once a
\* later run has appended anything, no row of an earlier run is left.
C4_ReplaceSemantics ==
  /\ (run > 1 /\ history[run - 1] = "done" /\ pc = "done") =>
       table.rows = AllRows
  /\ (run > 1 /\ OkAppends # {}) =>
       \A i \in 1..Len(table.rows) : table.rows[i][1] = run

C4_Witness ==
  /\ run > 1 /\ history[run - 1] = "done" /\ pc = "done"
  /\ Len(tableAtStart.rows) > 1 /\ tableAtStart.rows[1][1] = run - 1
  /\ Len(table.rows) > 0 /\ Len(table.rows) < Len(tableAtStart.rows)

\* C5: after a full run the table's columns are exactly the first batch's
\* columns, in the same order.
C5_ColumnsOfFirstBatch ==
  pc = "done" => table.cols = first_chunk.cols

\* C6: when the source cannot be opened the run has failed without issuing
\* any database call, and the table is as the run found it.
C6_UnreachableSourceTouchesNothing ==
  failCause = "source" =>
    /\ pc = "failed"
    /\ dbLog = <<>>
    /\ table = tableAtStart

C6_Witness ==
  /\ prog = "ingest" /\ failCause = "source"
  /\ table.exists /\ Len(table.rows) > 0

\* C7: when parsing a batch raises, every database call of the run belongs
\* to a batch read before it: no row at or after the failing batch is in the
\* table, and if the failing batch is the first one no call was issued at
\* all and the table is as the run found it.
C7_BadBatchNotWritten ==
  failCause = "read" =>
    /\ pc = "failed"
    /\ Cardinality(OkAppends) = Len(batches)
    /\ Len(dbLog) = (IF batches = <<>> THEN 0 ELSE 1 + Len(batches))
    /\ \A i \in 1..Len(table.rows) :
         table.rows[i][1] = run => table.rows[i][2] <= pos /\ table.rows[i][2] < src.bad
    /\ batches = <<>> => table = tableAtStart

C7_Witness ==
  /\ failCause = "read" /\ batches = <<>>
  /\ tableAtStart.exists /\ Len(table.rows) > 0

\* C8: a run is never aborted by the emission of a progress message.
C8_ReporterNeverAborts ==
  pc = "failed" => failCause # "report"

\* C9: a run that fails after it created the table stops there, and the
\* table holds exactly the rows of the batches appended so far, which are
\* the first rows of the source in file order; the failing call is the
\* last database call of the run and at most one batch was read and not
\* appended.
C9_State ==
  (pc = "failed" /\ Creations # {}) =>
    /\ table.exists
    /\ AppendedRows <= src.rows
    /\ table.rows = SubSeq(AllRows, 1, AppendedRows)
    /\ AppendedRows = SumSeq(SubSeq(batches, 1, Cardinality(OkAppends)))
    /\ \A i \in 1..Len(dbLog) : ~dbLog[i].ok => i = Len(dbLog)
    /\ InFlight \in {0, 1}

C9_FailStopLeavesPrefix ==
  /\ []C9_State
  /\ [][pc = "failed" => run' = run + 1]_vars

C9_Witness ==
  /\ pc = "failed" /\ failCause = "db" /\ prog = "ingest"
  /\ Len(batches) = 3 /\ Len(table.rows) = 2 /\ chunksize = 1

\* C10: at most one batch is read and not yet appended; a batch is read
\* only when every batch read before it has been appended, and the step
\* that reads issues no database call.
C10_OneBatchInFlight ==
  /\ [](InFlight \in {0, 1})
  /\ [][(run' = run /\ Len(batches') > Len(batches)) =>
          /\ InFlight = 0
          /\ Len(batches') = Len(batches) + 1
          /\ dbLog' = dbLog /\ table' = table]_vars

C10_Witness ==
  /\ prog = "ingest" /\ pc = "loop_append"
  /\ Len(batches) = 3 /\ Cardinality(OkAppends) = 2

====
